---- MODULE Spec2Model ----
(***************************************************************************)
(* Model of src/kv/txn.rs: the TxnRequest builder (compare predicates,     *)
(* success and failure operation lists), its conversion to the wire        *)
(* request, the TxnOp -> RequestOp conversion and the TxnResponse wrapper.  *)
(***************************************************************************)
EXTENDS Integers, Sequences, FiniteSets, Bags, TLC

VARIABLES builder, request, calls, other, owed, reply, resp

vars == <<builder, request, calls, other, owed, reply, resp>>

\* ------------------------------------------------------------------ bounds

\* Builder calls made on one builder in the main specification.
MaxCalls == 3
\* Builder calls in the specification that feeds boundary usize values.
MaxEdgeCalls == 1
\* Builder calls in the specification that builds the same request twice.
MaxPairCalls == 3
\* Per-operation results carried by a wire reply.
MaxResponses == 3

\* ------------------------------------------------------- values and types

\* Option<T>
None == [tag |-> "None"]
Some(x) == [tag |-> "Some", val |-> x]

\* A 64-bit word is kept as four 16-bit limbs, most significant first, so
\* that the whole range of usize (64-bit target) and of i64 is representable.
LimbBase == 2^16
LimbTop == 2^15
Limbs == 1..4

U64(a, b, c, d) == <<a, b, c, d>>
IsU64(u) == DOMAIN u = Limbs /\ \A i \in Limbs : u[i] \in 0..(LimbBase - 1)

\* A mathematical integer of i64: sign and magnitude (magnitude as limbs).
IsI64(x) ==
    /\ DOMAIN x = {"neg", "mag"}
    /\ x.neg \in BOOLEAN
    /\ IsU64(x.mag)
    /\ (x.neg => x.mag # U64(0, 0, 0, 0))
    /\ (~x.neg => x.mag[1] < LimbTop)
    /\ (x.neg => (x.mag[1] < LimbTop \/ x.mag = U64(LimbTop, 0, 0, 0)))

\* The integer denoted by a usize word: itself, never negative.
UsizeValue(u) == [neg |-> FALSE, mag |-> u]

RECURSIVE AddCarry(_, _)
AddCarry(limbs, carry) ==
    IF limbs = <<>> THEN <<>>
    ELSE LET n == Len(limbs)
             s == limbs[n] + carry
         IN  Append(AddCarry(SubSeq(limbs, 1, n - 1), s \div LimbBase), s % LimbBase)

\* 2^64 - u for a word u # 0: complement every limb, add one.
Neg64(u) == AddCarry([i \in Limbs |-> (LimbBase - 1) - u[i]], 1)

\* A checked conversion (i64::try_from(..).unwrap()) aborts above i64::MAX.
UsizeAsI64_checked(u) ==
    IF u[1] < LimbTop THEN [neg |-> FALSE, mag |-> u] ELSE [abort |-> TRUE]

\* `version as i64`: same-width reinterpretation of the word as two's
\* complement; words with the top bit set become negative.
UsizeAsI64(u) ==
    IF u[1] < LimbTop THEN [neg |-> FALSE, mag |-> u]
    ELSE [neg |-> TRUE, mag |-> Neg64(u)]

\* KeyRange { key, range_end }: byte strings as tuples of bytes.
KeyRanges ==
    { [key |-> <<102, 111, 111>>, range_end |-> <<>>],
      [key |-> <<97>>, range_end |-> <<98>>] }

\* enum TxnCmp
TxnCmps == {"TxnCmp::Equal", "TxnCmp::NotEqual", "TxnCmp::Greater", "TxnCmp::Less"}

\* The (key_range, cmp) arguments: every pair, and a smaller set that still
\* gives every operator and every key range to every method.
AllWhenArgs == [key_range : KeyRanges, cmp : TxnCmps]
WhenArgs ==
    { [key_range |-> [key |-> <<102, 111, 111>>, range_end |-> <<>>], cmp |-> "TxnCmp::Equal"],
      [key_range |-> [key |-> <<97>>, range_end |-> <<98>>], cmp |-> "TxnCmp::NotEqual"],
      [key_range |-> [key |-> <<102, 111, 111>>, range_end |-> <<>>], cmp |-> "TxnCmp::Greater"],
      [key_range |-> [key |-> <<97>>, range_end |-> <<98>>], cmp |-> "TxnCmp::Less"] }

\* The usize arguments of the main specification and the boundary ones.
Usizes == { U64(0, 0, 0, 1) }
UsizeEdges ==
    { U64(0, 0, 0, 0), U64(0, 0, 0, 1),
      U64(LimbTop - 1, LimbBase - 1, LimbBase - 1, LimbBase - 1),
      U64(LimbTop, 0, 0, 0),
      U64(LimbBase - 1, LimbBase - 1, LimbBase - 1, LimbBase - 1) }

\* The V: Into<Vec<u8>> arguments of when_value.
ByteValues == { <<98, 97, 114>> }

\* etcdserverpb::compare::CompareResult as i32 (generated from rpc.proto).
CompareResultAsI32(r) ==
    CASE r = "CompareResult::Equal" -> 0
      [] r = "CompareResult::Greater" -> 1
      [] r = "CompareResult::Less" -> 2
      [] r = "CompareResult::NotEqual" -> 3

\* etcdserverpb::compare::CompareTarget as i32 (generated from rpc.proto).
CompareTargetAsI32(t) ==
    CASE t = "CompareTarget::Version" -> 0
      [] t = "CompareTarget::Create" -> 1
      [] t = "CompareTarget::Mod" -> 2
      [] t = "CompareTarget::Value" -> 3

\* A slip in the match: Greater and Less exchanged.
TxnCmp_into_swapped(cmp) ==
    CASE cmp = "TxnCmp::Equal" -> "CompareResult::Equal"
      [] cmp = "TxnCmp::NotEqual" -> "CompareResult::NotEqual"
      [] cmp = "TxnCmp::Greater" -> "CompareResult::Less"
      [] cmp = "TxnCmp::Less" -> "CompareResult::Greater"

\* impl Into<CompareResult> for TxnCmp
TxnCmp_into(cmp) ==
    CASE cmp = "TxnCmp::Equal" -> "CompareResult::Equal"
      [] cmp = "TxnCmp::NotEqual" -> "CompareResult::NotEqual"
      [] cmp = "TxnCmp::Greater" -> "CompareResult::Greater"
      [] cmp = "TxnCmp::Less" -> "CompareResult::Less"

\* ------------------------------------------------------------ the builder

\* A slip: the predicate list starts with one default record.
new_with_default_compare ==
    [proto |-> [compare |-> <<[result |-> 0, target |-> 0, key |-> <<>>, range_end |-> <<>>,
                               target_union |-> None]>>,
                success |-> <<>>, failure |-> <<>>]]

\* TxnRequest::new
new == [proto |-> [compare |-> <<>>, success |-> <<>>, failure |-> <<>>]]

\* A slip: a predicate on a key that already has one replaces it.
when_version_upsert(self, key_range, cmp, version) ==
    LET result == TxnCmp_into(cmp)
        rec == [result |-> CompareResultAsI32(result),
                target |-> CompareTargetAsI32("CompareTarget::Version"),
                key |-> key_range.key,
                range_end |-> key_range.range_end,
                target_union |-> Some([variant |-> "Version", val |-> UsizeAsI64(version)])]
        old == self.proto.compare
    IN  IF \E i \in DOMAIN old : old[i].key = rec.key
        THEN [self EXCEPT !.proto.compare =
                 [i \in DOMAIN old |-> IF old[i].key = rec.key THEN rec ELSE old[i]]]
        ELSE [self EXCEPT !.proto.compare = Append(@, rec)]

\* when_version
when_version(self, key_range, cmp, version) ==
    LET result == TxnCmp_into(cmp)
    IN  [self EXCEPT !.proto.compare = Append(@,
            [result |-> CompareResultAsI32(result),
             target |-> CompareTargetAsI32("CompareTarget::Version"),
             key |-> key_range.key,
             range_end |-> key_range.range_end,
             target_union |-> Some([variant |-> "Version", val |-> UsizeAsI64(version)])])]

\* when_create_revision
when_create_revision(self, key_range, cmp, revision) ==
    LET result == TxnCmp_into(cmp)
    IN  [self EXCEPT !.proto.compare = Append(@,
            [result |-> CompareResultAsI32(result),
             target |-> CompareTargetAsI32("CompareTarget::Create"),
             key |-> key_range.key,
             range_end |-> key_range.range_end,
             target_union |-> Some([variant |-> "CreateRevision", val |-> UsizeAsI64(revision)])])]

\* when_mod_revision
when_mod_revision(self, key_range, cmp, revision) ==
    LET result == TxnCmp_into(cmp)
    IN  [self EXCEPT !.proto.compare = Append(@,
            [result |-> CompareResultAsI32(result),
             target |-> CompareTargetAsI32("CompareTarget::Mod"),
             key |-> key_range.key,
             range_end |-> key_range.range_end,
             target_union |-> Some([variant |-> "ModRevision", val |-> UsizeAsI64(revision)])])]

\* A copy-and-paste slip: the record keeps the target code of when_version.
when_value_wrong_target(self, key_range, cmp, value) ==
    LET result == TxnCmp_into(cmp)
    IN  [self EXCEPT !.proto.compare = Append(@,
            [result |-> CompareResultAsI32(result),
             target |-> CompareTargetAsI32("CompareTarget::Version"),
             key |-> key_range.key,
             range_end |-> key_range.range_end,
             target_union |-> Some([variant |-> "Value", val |-> value])])]

\* when_value
when_value(self, key_range, cmp, value) ==
    LET result == TxnCmp_into(cmp)
    IN  [self EXCEPT !.proto.compare = Append(@,
            [result |-> CompareResultAsI32(result),
             target |-> CompareTargetAsI32("CompareTarget::Value"),
             key |-> key_range.key,
             range_end |-> key_range.range_end,
             target_union |-> Some([variant |-> "Value", val |-> value])])]

\* impl Into<etcdserverpb::TxnRequest> for TxnRequest
TxnRequest_into(self) == self.proto

\* The request wrappers of the sibling modules hold their wire message in
\* `proto`; their Into conversion hands it out.
RangeRequest_into(req) == req.proto
PutRequest_into(req) == req.proto
DeleteRequest_into(req) == req.proto

\* impl From<RangeRequest | PutRequest | DeleteRequest | TxnRequest> for TxnOp
TxnOp_from(op) ==
    CASE op.type = "RangeRequest" -> [variant |-> "Range", req |-> op.val]
      [] op.type = "PutRequest" -> [variant |-> "Put", req |-> op.val]
      [] op.type = "DeleteRequest" -> [variant |-> "Delete", req |-> op.val]
      [] op.type = "TxnRequest" -> [variant |-> "Txn", req |-> op.val]

\* impl Into<etcdserverpb::RequestOp> for TxnOp
TxnOp_into(self) ==
    LET req ==
            CASE self.variant = "Range" ->
                     [variant |-> "RequestRange", val |-> RangeRequest_into(self.req)]
              [] self.variant = "Put" ->
                     [variant |-> "RequestPut", val |-> PutRequest_into(self.req)]
              [] self.variant = "Delete" ->
                     [variant |-> "RequestDeleteRange", val |-> DeleteRequest_into(self.req)]
              [] self.variant = "Txn" ->
                     [variant |-> "RequestTxn", val |-> TxnRequest_into(self.req)]
    IN  [request |-> Some(req)]

\* A slip: the operation is put in front of the branch.
and_then_front(self, op) ==
    [self EXCEPT !.proto.success = <<TxnOp_into(TxnOp_from(op))>> \o @]

\* A slip: a nested transaction is merged into the outer request.
and_then_flatten(self, op) ==
    IF op.type = "TxnRequest"
    THEN [self EXCEPT !.proto.compare = @ \o op.val.proto.compare,
                      !.proto.success = @ \o op.val.proto.success,
                      !.proto.failure = @ \o op.val.proto.failure]
    ELSE [self EXCEPT !.proto.success = Append(@, TxnOp_into(TxnOp_from(op)))]

\* and_then
and_then(self, op) ==
    [self EXCEPT !.proto.success = Append(@, TxnOp_into(TxnOp_from(op)))]

\* A copy-and-paste slip: or_else pushes onto the success branch.
or_else_success(self, op) ==
    [self EXCEPT !.proto.success = Append(@, TxnOp_into(TxnOp_from(op)))]

\* or_else
or_else(self, op) ==
    [self EXCEPT !.proto.failure = Append(@, TxnOp_into(TxnOp_from(op)))]

\* ------------------------------------------------------- operation inputs

\* A builder kept inside an operation: one predicate, one success operation.
NestedTxnRequest ==
    and_then(
        when_version(new, [key |-> <<97>>, range_end |-> <<>>], "TxnCmp::Equal",
                     U64(0, 0, 0, 1)),
        [type |-> "PutRequest",
         val |-> [proto |-> [key |-> <<97>>, value |-> <<122>>]]])

\* The O: Into<TxnOp> arguments of and_then and or_else.
OpInputs ==
    { [type |-> "RangeRequest",
       val |-> [proto |-> [key |-> <<102, 111, 111>>, range_end |-> <<>>]]],
      [type |-> "PutRequest",
       val |-> [proto |-> [key |-> <<102, 111, 111>>, value |-> <<98, 97, 114>>]]],
      [type |-> "DeleteRequest",
       val |-> [proto |-> [key |-> <<97>>, range_end |-> <<98>>]]],
      [type |-> "TxnRequest", val |-> NestedTxnRequest] }

WhenMethods ==
    {"when_version", "when_create_revision", "when_mod_revision", "when_value"}

\* One recorded builder call applied to a builder.
ApplyCall(self, c) ==
    CASE c.method = "when_version" -> when_version(self, c.key_range, c.cmp, c.value)
      [] c.method = "when_create_revision" ->
             when_create_revision(self, c.key_range, c.cmp, c.value)
      [] c.method = "when_mod_revision" ->
             when_mod_revision(self, c.key_range, c.cmp, c.value)
      [] c.method = "when_value" -> when_value(self, c.key_range, c.cmp, c.value)
      [] c.method = "and_then" -> and_then(self, c.op)
      [] c.method = "or_else" -> or_else(self, c.op)

\* ----------------------------------------------------------------- state

Init ==
    /\ builder = Some(new)
    /\ request = None
    /\ calls = <<>>
    /\ other = new
    /\ owed = EmptyBag
    /\ reply = None
    /\ resp = None

\* The builder is owned (not yet moved into a request) and may take a call.
Live(max) == builder.tag = "Some" /\ Len(calls) < max

\* ---------------------------------------------------------------- actions

WhenVersion(A, U, max) ==
    /\ Live(max)
    /\ \E a \in A, v \in U :
          /\ builder' = Some(when_version(builder.val, a.key_range, a.cmp, v))
          /\ calls' = Append(calls, [method |-> "when_version", key_range |-> a.key_range,
                                     cmp |-> a.cmp, value |-> v])
    /\ UNCHANGED <<request, other, owed, reply, resp>>

WhenCreateRevision(A, U, max) ==
    /\ Live(max)
    /\ \E a \in A, v \in U :
          /\ builder' = Some(when_create_revision(builder.val, a.key_range, a.cmp, v))
          /\ calls' = Append(calls, [method |-> "when_create_revision", key_range |-> a.key_range,
                                     cmp |-> a.cmp, value |-> v])
    /\ UNCHANGED <<request, other, owed, reply, resp>>

WhenModRevision(A, U, max) ==
    /\ Live(max)
    /\ \E a \in A, v \in U :
          /\ builder' = Some(when_mod_revision(builder.val, a.key_range, a.cmp, v))
          /\ calls' = Append(calls, [method |-> "when_mod_revision", key_range |-> a.key_range,
                                     cmp |-> a.cmp, value |-> v])
    /\ UNCHANGED <<request, other, owed, reply, resp>>

WhenValue(A, max) ==
    /\ Live(max)
    /\ \E a \in A, v \in ByteValues :
          /\ builder' = Some(when_value(builder.val, a.key_range, a.cmp, v))
          /\ calls' = Append(calls, [method |-> "when_value", key_range |-> a.key_range,
                                     cmp |-> a.cmp, value |-> v])
    /\ UNCHANGED <<request, other, owed, reply, resp>>

AndThen(max) ==
    /\ Live(max)
    /\ \E op \in OpInputs :
          /\ builder' = Some(and_then(builder.val, op))
          /\ calls' = Append(calls, [method |-> "and_then", op |-> op])
    /\ UNCHANGED <<request, other, owed, reply, resp>>

OrElse(max) ==
    /\ Live(max)
    /\ \E op \in OpInputs :
          /\ builder' = Some(or_else(builder.val, op))
          /\ calls' = Append(calls, [method |-> "or_else", op |-> op])
    /\ UNCHANGED <<request, other, owed, reply, resp>>

\* let req: etcdserverpb::TxnRequest = builder.into();  the builder is moved.
Finalize ==
    /\ builder.tag = "Some"
    /\ request' = Some(TxnRequest_into(builder.val))
    /\ builder' = None
    /\ UNCHANGED <<calls, other, owed, reply, resp>>

Next ==
    \/ WhenVersion(WhenArgs, Usizes, MaxCalls)
    \/ WhenCreateRevision(WhenArgs, Usizes, MaxCalls)
    \/ WhenModRevision(WhenArgs, Usizes, MaxCalls)
    \/ WhenValue(WhenArgs, MaxCalls)
    \/ AndThen(MaxCalls)
    \/ OrElse(MaxCalls)
    \/ Finalize

Spec == Init /\ [][Next]_vars

\* The same builder fed every (key_range, cmp) pair and the boundary values
\* of usize.
NextEdge ==
    \/ WhenVersion(AllWhenArgs, UsizeEdges, MaxEdgeCalls)
    \/ WhenCreateRevision(AllWhenArgs, UsizeEdges, MaxEdgeCalls)
    \/ WhenModRevision(AllWhenArgs, UsizeEdges, MaxEdgeCalls)
    \/ WhenValue(AllWhenArgs, MaxEdgeCalls)
    \/ AndThen(MaxEdgeCalls)
    \/ OrElse(MaxEdgeCalls)
    \/ Finalize

SpecEdge == Init /\ [][NextEdge]_vars

\* ------------------------------------------------- reading the history

Last(s) == s[Len(s)]

WhenCalls == SelectSeq(calls, LAMBDA c : c.method \in WhenMethods)
ThenCalls == SelectSeq(calls, LAMBDA c : c.method = "and_then")
ElseCalls == SelectSeq(calls, LAMBDA c : c.method = "or_else")

\* The wire request the builder stands for: the finalized one once the
\* builder has been moved, else what finalizing it now yields.
CurrentRequest ==
    IF builder.tag = "Some" THEN TxnRequest_into(builder.val) ELSE request.val

\* A builder call has just been made (every call extends the history).
Called(method) == calls' # calls /\ Last(calls').method = method
CalledWhen == calls' # calls /\ Last(calls').method \in WhenMethods

\* The wire codes the documentation of the request names.
OperatorCode(cmp) ==
    CASE cmp = "TxnCmp::Equal" -> CompareResultAsI32("CompareResult::Equal")
      [] cmp = "TxnCmp::NotEqual" -> CompareResultAsI32("CompareResult::NotEqual")
      [] cmp = "TxnCmp::Greater" -> CompareResultAsI32("CompareResult::Greater")
      [] cmp = "TxnCmp::Less" -> CompareResultAsI32("CompareResult::Less")

TargetOf(method) ==
    CASE method = "when_version" -> "CompareTarget::Version"
      [] method = "when_create_revision" -> "CompareTarget::Create"
      [] method = "when_mod_revision" -> "CompareTarget::Mod"
      [] method = "when_value" -> "CompareTarget::Value"

VariantOf(method) ==
    CASE method = "when_version" -> "Version"
      [] method = "when_create_revision" -> "CreateRevision"
      [] method = "when_mod_revision" -> "ModRevision"
      [] method = "when_value" -> "Value"

WireKind(type) ==
    CASE type = "RangeRequest" -> "RequestRange"
      [] type = "PutRequest" -> "RequestPut"
      [] type = "DeleteRequest" -> "RequestDeleteRange"
      [] type = "TxnRequest" -> "RequestTxn"

\* The operation record an argument of and_then / or_else must become.
ExpectedOp(op) == [request |-> Some([variant |-> WireKind(op.type), val |-> op.val.proto])]

\* ------------------------------------------------------------------- C1

\* C1: every call of when_version, when_create_revision, when_mod_revision
\* or when_value turns the request's predicate list into the previous list
\* with exactly one record appended at the end; the new record carries the
\* code of the given operator (four distinct codes), the target code of the
\* method called, and the key and range_end of the given key range.
C1_PredicateAppended ==
    [][CalledWhen =>
          LET c == Last(calls')
              before == TxnRequest_into(builder.val).compare
              after == TxnRequest_into(builder'.val).compare
              rec == Last(after)
          IN  /\ Len(after) = Len(before) + 1
              /\ SubSeq(after, 1, Len(before)) = before
              /\ rec.result = OperatorCode(c.cmp)
              /\ Cardinality({CompareResultAsI32(TxnCmp_into(x)) : x \in TxnCmps})
                    = Cardinality(TxnCmps)
              /\ rec.target = CompareTargetAsI32(TargetOf(c.method))
              /\ rec.key = c.key_range.key
              /\ rec.range_end = c.key_range.range_end]_vars

C1_Witness ==
    /\ request.tag = "Some"
    /\ Len(calls) = 2
    /\ calls[1].method = "when_mod_revision"
    /\ calls[2].method = "when_value"
    /\ calls[2].cmp = "TxnCmp::Less"
    /\ calls[2].key_range.range_end # <<>>
    /\ Len(request.val.compare) = 2

\* ------------------------------------------------------------------- C2

\* C2: in the finalized request the success list holds exactly the
\* operations given to and_then, in call order, and the failure list exactly
\* those given to or_else, in call order, each with the kind of its argument.
C2_BranchesInCallOrder ==
    request.tag = "Some" =>
        /\ request.val.success = [i \in 1..Len(ThenCalls) |-> ExpectedOp(ThenCalls[i].op)]
        /\ request.val.failure = [i \in 1..Len(ElseCalls) |-> ExpectedOp(ElseCalls[i].op)]

C2_Witness ==
    /\ request.tag = "Some"
    /\ Len(calls) = 3
    /\ calls[1].method = "and_then" /\ calls[1].op.type = "PutRequest"
    /\ calls[2].method = "or_else"
    /\ calls[3].method = "and_then" /\ calls[3].op.type = "TxnRequest"
    /\ Len(request.val.success) = 2
    /\ Len(request.val.failure) = 1

\* ------------------------------------------------------------------- C3

\* C3: and_then leaves the failure branch unchanged and or_else leaves the
\* success branch unchanged.
C3_BranchIndependence ==
    [][/\ Called("and_then") =>
              TxnRequest_into(builder'.val).failure = TxnRequest_into(builder.val).failure
       /\ Called("or_else") =>
              TxnRequest_into(builder'.val).success = TxnRequest_into(builder.val).success]_vars

C3_Witness ==
    /\ builder.tag = "Some"
    /\ Len(calls) = 3
    /\ calls[1].method = "or_else"
    /\ calls[2].method = "and_then"
    /\ calls[3].method = "or_else"
    /\ Len(builder.val.proto.success) = 1
    /\ Len(builder.val.proto.failure) = 2

\* ------------------------------------------------------------------- C6

\* C6: finalizing a freshly created builder, with no call in between, gives
\* a request with no predicate, no success and no failure operation.
C6_EmptyBuilderFinalize ==
    (request.tag = "Some" /\ calls = <<>>) =>
        /\ Len(request.val.compare) = 0
        /\ Len(request.val.success) = 0
        /\ Len(request.val.failure) = 0

C6_Witness == request.tag = "Some" /\ calls = <<>> /\ builder = None

\* ------------------------------------------------------------------- C9

\* C9: the four when_* methods leave both operation lists unchanged; and_then
\* and or_else leave the predicate list unchanged; a nested transaction
\* given as the operation adds exactly one record, holding the nested
\* request, to its branch and nothing to the outer predicate or other lists.
C9_ListsFramed ==
    [][LET before == TxnRequest_into(builder.val)
           after == TxnRequest_into(builder'.val)
           c == Last(calls')
       IN  /\ CalledWhen =>
                  after.success = before.success /\ after.failure = before.failure
           /\ (Called("and_then") \/ Called("or_else")) =>
                  after.compare = before.compare
           /\ (Called("and_then") /\ c.op.type = "TxnRequest") =>
                  /\ after.success = Append(before.success, ExpectedOp(c.op))
                  /\ after.failure = before.failure
           /\ (Called("or_else") /\ c.op.type = "TxnRequest") =>
                  /\ after.failure = Append(before.failure, ExpectedOp(c.op))
                  /\ after.success = before.success]_vars

C9_Witness ==
    /\ builder.tag = "Some"
    /\ Len(calls) = 3
    /\ calls[1].method = "when_version"
    /\ calls[2].method = "or_else"
    /\ calls[3].method = "and_then" /\ calls[3].op.type = "TxnRequest"
    /\ Len(calls[3].op.val.proto.compare) = 1
    /\ Len(builder.val.proto.compare) = 1
    /\ Len(builder.val.proto.success) = 1

\* ------------------------------------------------------------------ C10

TargetCodes ==
    { CompareTargetAsI32(t) : t \in {"CompareTarget::Version", "CompareTarget::Create",
                                     "CompareTarget::Mod", "CompareTarget::Value"} }

OperatorCodes == { OperatorCode(x) : x \in TxnCmps }

IsBytes(b) == DOMAIN b = 1..Len(b) /\ \A i \in DOMAIN b : b[i] \in 0..255

\* A compare record whose expected value is present and of the variant its
\* target code names, and whose operator code is one of the four operators.
WellFormedCompare(rec) ==
    /\ DOMAIN rec = {"result", "target", "key", "range_end", "target_union"}
    /\ rec.result \in OperatorCodes
    /\ rec.target \in TargetCodes
    /\ IsBytes(rec.key) /\ IsBytes(rec.range_end)
    /\ rec.target_union.tag = "Some"
    /\ LET u == rec.target_union.val
       IN  /\ DOMAIN u = {"variant", "val"}
           /\ \E m \in WhenMethods :
                 /\ rec.target = CompareTargetAsI32(TargetOf(m))
                 /\ u.variant = VariantOf(m)
                 /\ IF m = "when_value" THEN IsBytes(u.val) ELSE IsI64(u.val)

RECURSIVE WellFormedRequest(_)
\* A wire request all of whose compare and operation records are well formed,
\* the requests nested as operations included.
WellFormedRequest(req) ==
    /\ DOMAIN req = {"compare", "success", "failure"}
    /\ \A i \in DOMAIN req.compare : WellFormedCompare(req.compare[i])
    /\ \A branch \in {req.success, req.failure} :
          \A i \in DOMAIN branch :
             /\ DOMAIN branch[i] = {"request"}
             /\ branch[i].request.tag = "Some"
             /\ LET r == branch[i].request.val
                IN  /\ r.variant \in {"RequestRange", "RequestPut",
                                      "RequestDeleteRange", "RequestTxn"}
                    /\ (r.variant = "RequestTxn" => WellFormedRequest(r.val))

\* C10: in every request reachable from new() by builder calls, nested
\* requests included, every compare record has a present expected value of
\* the variant its target code names and one of the four operator codes, and
\* every operation record has a present payload of one of the four kinds.
C10_WellFormed == WellFormedRequest(CurrentRequest)

C10_Witness ==
    /\ request.tag = "Some"
    /\ Len(calls) = 3
    /\ calls[1].method = "when_value"
    /\ calls[2].method = "when_create_revision"
    /\ calls[3].method = "or_else" /\ calls[3].op.type = "TxnRequest"
    /\ request.val.compare[1].target_union.val.variant = "Value"
    /\ request.val.failure[1].request.val.variant = "RequestTxn"
    /\ Len(request.val.failure[1].request.val.val.compare) = 1

\* ------------------------------------------------------------------- C4

\* C4: for every usize given as expected version or revision to
\* when_version, when_create_revision or when_mod_revision, the expected
\* value stored in the wire compare record is that same integer, hence
\* never negative.
C4_ExpectedValueExact ==
    \A i \in DOMAIN CurrentRequest.compare :
       WhenCalls[i].method # "when_value" =>
          /\ CurrentRequest.compare[i].target_union.val.val = UsizeValue(WhenCalls[i].value)
          /\ ~CurrentRequest.compare[i].target_union.val.val.neg

\* What holds of the cast: exact below 2^63, and 2^64 less (a negative
\* value) from 2^63 on.
C4_ExpectedValueWraps ==
    \A i \in DOMAIN CurrentRequest.compare :
       WhenCalls[i].method # "when_value" =>
          LET u == WhenCalls[i].value
              x == CurrentRequest.compare[i].target_union.val.val
          IN  IF u[1] < LimbTop THEN x = UsizeValue(u)
              ELSE x.neg /\ x.mag = Neg64(u) /\ IsI64(x)

\* ------------------------------------------------------- the wire reply

\* etcdserverpb::ResponseOp: one result, of the kind of its operation.
ResponseOps ==
    { [response |-> Some([variant |-> v])] :
        v \in {"ResponseRange", "ResponsePut", "ResponseDeleteRange", "ResponseTxn"} }

RECURSIVE SeqsUpTo(_, _)
SeqsUpTo(S, n) ==
    IF n = 0 THEN {<<>>}
    ELSE LET shorter == SeqsUpTo(S, n - 1)
         IN  shorter \cup {Append(t, x) : t \in {u \in shorter : Len(u) = n - 1}, x \in S}

\* etcdserverpb::TxnResponse { header, succeeded, responses }
Replies ==
    [header : {[revision |-> 1]}, succeeded : BOOLEAN,
     responses : SeqsUpTo(ResponseOps, MaxResponses)]

\* impl From<etcdserverpb::TxnResponse> for TxnResponse
TxnResponse_from(r) == [proto |-> r]

\* The ways a caller can read a TxnResponse: `proto` is private and the type
\* has no method, so there is none.
TxnResponse_accessors == {}

\* What the accessors of a TxnResponse give its caller.
Exposed(r) == [a \in TxnResponse_accessors |-> r.proto[a]]

\* A decoded reply arrives from the transport.
Receive ==
    /\ reply.tag = "None"
    /\ \E r \in Replies : reply' = Some(r)
    /\ UNCHANGED <<builder, request, calls, other, owed, resp>>

\* TxnResponse::from(reply)
Wrap ==
    /\ reply.tag = "Some"
    /\ resp.tag = "None"
    /\ resp' = Some(TxnResponse_from(reply.val))
    /\ UNCHANGED <<builder, request, calls, other, owed, reply>>

NextResp == Receive \/ Wrap

SpecResp == Init /\ [][NextResp]_vars

\* ------------------------------------------------------------------- C5

\* C5: a TxnResponse built from a wire reply exposes, through accessors, the
\* branch-selection flag and the ordered result list of that reply without
\* transformation; a reply saying the failure branch ran is exposed with a
\* false flag and with the results of that reply only.
C5_AccessorsExposeReply ==
    resp.tag = "Some" =>
        LET view == Exposed(resp.val)
        IN  /\ {"succeeded", "responses"} \subseteq DOMAIN view
            /\ view.succeeded = reply.val.succeeded
            /\ view.responses = reply.val.responses
            /\ (~reply.val.succeeded => ~view.succeeded)

\* What the wrapper does hold: the reply, untransformed, in its private field.
TxnResponse_HoldsReply ==
    resp.tag = "Some" => resp.val.proto = reply.val

\* ------------------------------------------------------------------- C7

IsTxnRequest(b) == DOMAIN b = {"proto"} /\ WellFormedRequest(b.proto)

IsRequestOp(o) ==
    WellFormedRequest([compare |-> <<>>, success |-> <<o>>, failure |-> <<>>])

\* Wrapping any decoded reply gives a TxnResponse.
WrapIsTotal ==
    \A r \in Replies :
       LET w == TxnResponse_from(r)
       IN  DOMAIN w = {"proto"} /\ w.proto \in Replies

\* C7: from every builder state, new, the four when_* methods (for every
\* usize, the largest included), and_then, or_else, the conversion of the
\* builder to the wire request, the conversion of an operation to a wire
\* operation record and the wrapping of a reply each return a value of
\* their result type: none aborts or rejects its input.
C7_Total ==
    /\ IsTxnRequest(new)
    /\ WrapIsTotal
    /\ \A op \in OpInputs : IsRequestOp(TxnOp_into(TxnOp_from(op)))
    /\ builder.tag = "Some" =>
          /\ WellFormedRequest(TxnRequest_into(builder.val))
          /\ \A kr \in KeyRanges, cmp \in TxnCmps :
                /\ \A v \in UsizeEdges :
                      /\ IsTxnRequest(when_version(builder.val, kr, cmp, v))
                      /\ IsTxnRequest(when_create_revision(builder.val, kr, cmp, v))
                      /\ IsTxnRequest(when_mod_revision(builder.val, kr, cmp, v))
                /\ \A v \in ByteValues : IsTxnRequest(when_value(builder.val, kr, cmp, v))
          /\ \A op \in OpInputs :
                /\ IsTxnRequest(and_then(builder.val, op))
                /\ IsTxnRequest(or_else(builder.val, op))

C7_Witness ==
    /\ builder.tag = "Some"
    /\ Len(calls) = 1
    /\ calls[1].method = "when_mod_revision"
    /\ calls[1].value = U64(LimbBase - 1, LimbBase - 1, LimbBase - 1, LimbBase - 1)
    /\ builder.val.proto.compare[1].target_union.val.val.neg

\* ------------------------------------------- one request built two ways

\* The predicate calls and operations given to both builders.
PairWhenCalls ==
    { [method |-> "when_version", key_range |-> [key |-> <<97>>, range_end |-> <<>>],
       cmp |-> "TxnCmp::Equal", value |-> U64(0, 0, 0, 1)],
      [method |-> "when_create_revision", key_range |-> [key |-> <<97>>, range_end |-> <<98>>],
       cmp |-> "TxnCmp::Greater", value |-> U64(0, 0, 0, 0)],
      [method |-> "when_mod_revision", key_range |-> [key |-> <<102, 111, 111>>, range_end |-> <<>>],
       cmp |-> "TxnCmp::Less", value |-> U64(0, 0, 0, 2)],
      [method |-> "when_value", key_range |-> [key |-> <<97>>, range_end |-> <<>>],
       cmp |-> "TxnCmp::NotEqual", value |-> <<98, 97, 114>>] }

PairOps == { op \in OpInputs : op.type \in {"PutRequest", "TxnRequest"} }

\* A predicate is added to the first builder; the second one is owed it.
PairWhen ==
    /\ Live(MaxPairCalls)
    /\ \E c \in PairWhenCalls :
          /\ builder' = Some(ApplyCall(builder.val, c))
          /\ calls' = Append(calls, c)
          /\ owed' = owed (+) SetToBag({c})
    /\ UNCHANGED <<request, other, reply, resp>>

\* The second builder is given any of the predicates it is owed.
PairReplay ==
    /\ \E c \in BagToSet(owed) :
          /\ other' = ApplyCall(other, c)
          /\ owed' = owed (-) SetToBag({c})
    /\ UNCHANGED <<builder, request, calls, reply, resp>>

\* Both builders receive the same and_then call.
PairAndThen ==
    /\ Live(MaxPairCalls)
    /\ \E op \in PairOps :
          /\ builder' = Some(and_then(builder.val, op))
          /\ other' = and_then(other, op)
          /\ calls' = Append(calls, [method |-> "and_then", op |-> op])
    /\ UNCHANGED <<request, owed, reply, resp>>

\* Both builders receive the same or_else call.
PairOrElse ==
    /\ Live(MaxPairCalls)
    /\ \E op \in PairOps :
          /\ builder' = Some(or_else(builder.val, op))
          /\ other' = or_else(other, op)
          /\ calls' = Append(calls, [method |-> "or_else", op |-> op])
    /\ UNCHANGED <<request, owed, reply, resp>>

NextPair == PairWhen \/ PairReplay \/ PairAndThen \/ PairOrElse

SpecPair == Init /\ [][NextPair]_vars

\* The compare records the pair's predicate calls produce.
PairCompareRecords == { Last(ApplyCall(new, c).proto.compare) : c \in PairWhenCalls }

\* A stored state, seen through the compare records it satisfies.
Stores == SUBSET PairCompareRecords

\* The server's choice: the success branch iff every predicate holds.
SelectedBranch(req, store) ==
    IF \A i \in DOMAIN req.compare : req.compare[i] \in store
    THEN [succeeded |-> TRUE, ops |-> req.success]
    ELSE [succeeded |-> FALSE, ops |-> req.failure]

BagOfSeq(s) ==
    [x \in {s[i] : i \in DOMAIN s} |-> Cardinality({i \in DOMAIN s : s[i] = x})]

\* ------------------------------------------------------------------- C8

\* C8: two builders given the same predicates in any two orders, and the
\* same and_then / or_else calls, finalize to requests with the same
\* predicates as a multiset and identical branch lists; evaluated as the
\* conjunction of the predicates against any stored state they select the
\* same branch.
C8_PredicateOrderIndependent ==
    BagToSet(owed) = {} =>
        LET a == TxnRequest_into(builder.val)
            b == TxnRequest_into(other)
        IN  /\ BagOfSeq(a.compare) = BagOfSeq(b.compare)
            /\ Len(a.compare) = Len(b.compare)
            /\ a.success = b.success
            /\ a.failure = b.failure
            /\ \A store \in Stores : SelectedBranch(a, store) = SelectedBranch(b, store)

C8_Witness ==
    /\ BagToSet(owed) = {}
    /\ Len(builder.val.proto.compare) = 2
    /\ builder.val.proto.compare # other.proto.compare
    /\ builder.val.proto.compare[1] = other.proto.compare[2]
    /\ Len(builder.val.proto.success) = 1

====
